---- MODULE Spec2Model ----
(***************************************************************************)
(* file-dedup: the wildcard matcher (matches_filter, matches_filters), the *)
(* streaming walker (FileIter) and the single-pass duplicate finder        *)
(* (scan_directory, find_duplicates).                                      *)
(*                                                                         *)
(* A file name and a filter are sequences of one-character strings.  A     *)
(* Peekable<Chars> is the index of the character peek() returns; it is     *)
(* exhausted when the index is past the end of its string.                 *)
(***************************************************************************)
EXTENDS Integers, Sequences, FiniteSets, TLC

\* Longest file name and longest filter drawn for the matcher.
MaxNameLen == 3
MaxFilterLen == 3

\* The alphabet: a letter in both cases and the two wildcard characters,
\* which a file name may hold as well as a filter.
Chars == {"a", "A", "?", "*"}

SeqsUpTo(S, n) == UNION {[1..k -> S] : k \in 0..n}

----------------------------------------------------------------------------
(* matches_filter *)

\* char::eq_ignore_ascii_case over the alphabet: the ASCII lower case of c.
ToAsciiLower(c) == IF c = "A" THEN "a" ELSE c

\* The closure chars_eq.
chars_eq(a, b, case_sensitive) ==
    IF case_sensitive THEN a = b ELSE ToAsciiLower(a) = ToAsciiLower(b)

\* The locals of matches_filter on entry to the scan loop.
EnterLoop(file_name, filter, case_sensitive) ==
    [file_name |-> file_name, filter |-> filter, case_sensitive |-> case_sensitive,
     filter_iter |-> 1, file_name_iter |-> 1,
     star_filter_iter |-> 0,            \* None
     star_file_name_iter |-> 1,
     pc |-> "loop", ret |-> FALSE]

\* filter.is_empty() || filter == "*"
EarlyReturnCond(filter) == filter = <<>> \/ filter = <<"*">>

\* while let Some(file_name_char) = file_name_iter.peek()
NamePeekSome(m) == m.file_name_iter <= Len(m.file_name)
FilterPeekSome(m) == m.filter_iter <= Len(m.filter)

\* First branch: the filter character is '?' or equals the name character.
CharMatches(m) ==
    /\ FilterPeekSome(m)
    /\ \/ m.filter[m.filter_iter] = "?"
       \/ chars_eq(m.filter[m.filter_iter], m.file_name[m.file_name_iter],
                   m.case_sensitive)

\* Second branch: the filter character is '*'.
AtStar(m) == FilterPeekSome(m) /\ m.filter[m.filter_iter] = "*"

\* Third branch: a '*' was recorded earlier.
HasCheckpoint(m) == m.star_filter_iter # 0

AdvanceBoth(m) ==
    [m EXCEPT !.filter_iter = @ + 1, !.file_name_iter = @ + 1]

RecordStar(m) ==
    [m EXCEPT !.star_filter_iter = m.filter_iter,
              !.star_file_name_iter = m.file_name_iter,
              !.filter_iter = @ + 1]

\* Iterator::next on a cursor over s: one character forward, and no move
\* once the cursor is exhausted.
iter_next(iter, s) == IF iter <= Len(s) THEN iter + 1 ELSE iter

\* Third branch taken: filter_iter = star_filter_iter;
\* star_file_name_iter.next(); file_name_iter = star_file_name_iter.clone().
Backtrack_NoAdvance(m) ==
    [m EXCEPT !.filter_iter = m.star_filter_iter,
              !.file_name_iter = m.star_file_name_iter]
Backtrack(m) ==
    [m EXCEPT !.filter_iter = m.star_filter_iter,
              !.star_file_name_iter = iter_next(@, m.file_name),
              !.file_name_iter = iter_next(m.star_file_name_iter, m.file_name)]

ReturnFalse(m) == [m EXCEPT !.pc = "done", !.ret = FALSE]

\* filter_iter.all(|f| f == '*') over what is left of the filter.
RemainingAllStars(m) ==
    \A i \in m.filter_iter..Len(m.filter) : m.filter[i] = "*"

ReturnRemaining(m) == [m EXCEPT !.pc = "done", !.ret = RemainingAllStars(m)]

\* One iteration of the scan loop, or the statement after it.
LoopStep(m) ==
    IF ~NamePeekSome(m) THEN ReturnRemaining(m)
    ELSE IF CharMatches(m) THEN AdvanceBoth(m)
    ELSE IF AtStar(m) THEN RecordStar(m)
    ELSE IF HasCheckpoint(m) THEN Backtrack(m)
    ELSE ReturnFalse(m)

\* The loop run to its return; the value returned.
RECURSIVE RunLoop(_)
RunLoop(m) ==
    IF m.pc = "done" THEN m.ret
    ELSE \E after \in {LoopStep(m)} : RunLoop(after)

\* matches_filter on the base name of a path.
matches_filter(file_name, filter, case_sensitive) ==
    IF EarlyReturnCond(filter) THEN TRUE
    ELSE RunLoop(EnterLoop(file_name, filter, case_sensitive))

\* matches_filters: path.file_name() is the last component of the path.
file_name(path) == path[Len(path)]

matches_filters_NoEmptyCase(path, filters, case_sensitive) ==
    \E i \in 1..Len(filters) :
        matches_filter(file_name(path), filters[i], case_sensitive)

matches_filters(path, filters, case_sensitive) ==
    IF filters = <<>> \/ \E i \in 1..Len(filters) : filters[i] = <<"*">>
    THEN TRUE
    ELSE \E i \in 1..Len(filters) :
            matches_filter(file_name(path), filters[i], case_sensitive)

----------------------------------------------------------------------------
(* The directory tree *)

\* Largest file, in bytes, and the most I/O failures one run meets.
MaxFileSize == 1
MaxFailures == 1

Bytes == {0, 1}
Contents == SeqsUpTo(Bytes, MaxFileSize)
FileNames == {<<"a">>, <<"A">>}

\* The root, as FileIter::new and scan_directory receive it; every other
\* path is the sequence of names below it.
Root == <<>>
DirX == <<"x">>
DirY == <<"y">>
DirZ == <<"z">>

Dir(parent, name) ==
    [parent |-> parent, name |-> name, kind |-> "dir", content |-> <<>>]

\* What a non-directory entry can be: a regular file with a name and a
\* content, or something that is neither a file nor a directory.
Leaves(contents) ==
    [parent : {Root}, name : FileNames, kind : {"file"}, content : contents]
        \cup [parent : {Root}, name : {<<"a">>}, kind : {"other"}, content : {<<>>}]

At(leaf, parent) == [leaf EXCEPT !.parent = parent]

\* The trees: x and y in the root, two leaves in x, z in y, one leaf in z;
\* a directory's entries come in the order fs::read_dir lists them.
Trees(contents) ==
    {<<Dir(Root, DirX), Dir(Root, DirY),
       At(t[1], <<DirX>>), At(t[2], <<DirX>>),
       Dir(<<DirY>>, DirZ), At(t[3], <<DirY, DirZ>>)>> :
        t \in {u \in Leaves(contents) \X Leaves(contents) \X Leaves(contents) :
                 u[1].name # u[2].name}}

\* One content of each length: all the walker, which reads no byte, can tell
\* apart.
ZeroFilled == {c \in Contents : \A i \in 1..Len(c) : c[i] = 0}

path_of(entry) == Append(entry.parent, entry.name)
is_dir(entry) == entry.kind = "dir"
is_file(entry) == entry.kind = "file"
\* Metadata::len
len(entry) == Len(entry.content)

\* fs::read_dir: the entries of a directory, in listing order.
read_dir_of(tree, dir) == SelectSeq(tree, LAMBDA e : e.parent = dir)

FilterLists ==
    {<<>>, << <<"*">> >>, << <<"a">> >>, << <<".">>, <<"A", "*">> >>}

Closed == [open |-> FALSE, dir |-> Root, rest |-> <<>>]
Open(tree, dir) == [open |-> TRUE, dir |-> dir, rest |-> read_dir_of(tree, dir)]

----------------------------------------------------------------------------
VARIABLES
    m,          \* matches_filter: its arguments and locals
    iterations, \* matches_filter: passes through the body of the scan loop
    fs,         \* the directory tree under the root
    options,    \* FilterOptions / DedupOptions
    queue,      \* FileIter.queue
    read_dir,   \* FileIter.read_dir
    ret,        \* what the last call of FileIter::next returned
    yielded,    \* the paths next has returned so far, in order
    popped,     \* the directories next has taken from the queue, in order
    pushed,     \* the directories put on the queue, in order
    finished,   \* the directories whose listing has ended
    admitted,   \* regular files matches_filters accepted
    rejected,   \* regular files matches_filters refused
    failures,   \* I/O failures met so far
    scan_queue, \* scan_directory: queue
    entries,    \* scan_directory: the ReadDir of current_dir
    size_map,   \* scan_directory: size_map
    unread,     \* files scan_directory skipped because metadata() failed
    status,     \* find_duplicates: "Running", or the Result it returned
    groups      \* find_duplicates: DuplicateFiles.groups

vars == <<m, iterations, fs, options, queue, read_dir, ret, yielded, popped, pushed,
          finished, admitted, rejected, failures, scan_queue, entries,
          size_map, unread, status, groups>>

matchVars == <<m, iterations>>
iterVars == <<queue, read_dir, ret, yielded, popped, pushed, finished,
              admitted, rejected>>
scanVars == <<scan_queue, entries, size_map, unread, status, groups>>
treeVars == <<fs, options>>

\* The values of the variables a specification does not use.
MatchIdle == m = EnterLoop(<<>>, <<>>, TRUE) /\ iterations = 0
TreeIdle ==
    /\ fs = <<>>
    /\ options = [filters |-> <<>>, case_sensitive |-> TRUE,
                  exclude_empty |-> FALSE, only_compare_file_size |-> FALSE]
IterIdle ==
    /\ queue = <<>> /\ read_dir = Closed /\ ret = "None"
    /\ yielded = <<>> /\ popped = <<>> /\ pushed = <<>> /\ finished = {}
    /\ admitted = {} /\ rejected = {}
ScanIdle ==
    /\ scan_queue = <<>> /\ entries = Closed /\ size_map = <<>>
    /\ unread = {} /\ status = "Ok" /\ groups = {}

----------------------------------------------------------------------------
(* The matcher run step by step on every name and filter within the bounds *)

MatchInit ==
    /\ \E name \in SeqsUpTo(Chars, MaxNameLen),
          filter \in SeqsUpTo(Chars, MaxFilterLen),
          case_sensitive \in BOOLEAN :
        m = [EnterLoop(name, filter, case_sensitive) EXCEPT !.pc = "entry"]
    /\ iterations = 0
    /\ TreeIdle /\ IterIdle /\ ScanIdle /\ failures = 0

EarlyReturn ==
    /\ m.pc = "entry"
    /\ EarlyReturnCond(m.filter)
    /\ m' = [m EXCEPT !.pc = "done", !.ret = TRUE]
    /\ UNCHANGED iterations
    /\ UNCHANGED <<treeVars, iterVars, scanVars, failures>>

Enter ==
    /\ m.pc = "entry"
    /\ ~EarlyReturnCond(m.filter)
    /\ m' = [m EXCEPT !.pc = "loop"]
    /\ UNCHANGED iterations
    /\ UNCHANGED <<treeVars, iterVars, scanVars, failures>>

StepMatch ==
    /\ m.pc = "loop" /\ NamePeekSome(m) /\ CharMatches(m)
    /\ m' = AdvanceBoth(m)
    /\ iterations' = iterations + 1
    /\ UNCHANGED <<treeVars, iterVars, scanVars, failures>>

StepStar ==
    /\ m.pc = "loop" /\ NamePeekSome(m) /\ ~CharMatches(m) /\ AtStar(m)
    /\ m' = RecordStar(m)
    /\ iterations' = iterations + 1
    /\ UNCHANGED <<treeVars, iterVars, scanVars, failures>>

StepBacktrack ==
    /\ m.pc = "loop" /\ NamePeekSome(m) /\ ~CharMatches(m) /\ ~AtStar(m)
    /\ HasCheckpoint(m)
    /\ m' = Backtrack(m)
    /\ iterations' = iterations + 1
    /\ UNCHANGED <<treeVars, iterVars, scanVars, failures>>

StepMismatch ==
    /\ m.pc = "loop" /\ NamePeekSome(m) /\ ~CharMatches(m) /\ ~AtStar(m)
    /\ ~HasCheckpoint(m)
    /\ m' = ReturnFalse(m)
    /\ iterations' = iterations + 1
    /\ UNCHANGED <<treeVars, iterVars, scanVars, failures>>

StepExhausted ==
    /\ m.pc = "loop" /\ ~NamePeekSome(m)
    /\ m' = ReturnRemaining(m)
    /\ UNCHANGED iterations
    /\ UNCHANGED <<treeVars, iterVars, scanVars, failures>>

MatchNext ==
    \/ EarlyReturn
    \/ Enter
    \/ StepMatch
    \/ StepStar
    \/ StepBacktrack
    \/ StepMismatch
    \/ StepExhausted

SpecMatch == MatchInit /\ [][MatchNext]_vars

\* A call of matches_filter runs on: nothing suspends the loop.
SpecMatchRuns == MatchInit /\ [][MatchNext]_vars /\ WF_vars(MatchNext)

----------------------------------------------------------------------------
(* FileIter: one action for each way through the body of next's loop *)

\* No iterator yet: the caller holds a directory and has built no FileIter.
IterInit ==
    /\ TreeIdle /\ IterIdle /\ MatchIdle /\ ScanIdle
    /\ failures = 0

\* FileIter::new(dir, options), on any of the trees and any of the options.
IterNew ==
    /\ fs = <<>>
    /\ fs' \in Trees(ZeroFilled)
    /\ options' \in [filters : FilterLists, case_sensitive : BOOLEAN,
                     exclude_empty : BOOLEAN, only_compare_file_size : {FALSE}]
    /\ queue' = <<Root>>
    /\ read_dir' = Closed
    /\ ret' = "New"
    /\ pushed' = <<Root>>
    /\ UNCHANGED <<yielded, popped, finished, admitted, rejected, failures,
                   matchVars, scanVars>>

Created == fs # <<>>

\* for entry in read_dir: the entry the loop turns to.
HasEntry == Created /\ read_dir.open /\ read_dir.rest # <<>>
entry == Head(read_dir.rest)
Consume == [read_dir EXCEPT !.rest = Tail(@)]

\* The filter test of lines 57-65 on a regular file.
PassesFilters(e) ==
    matches_filters(path_of(e), options.filters, options.case_sensitive)

\* The empty-file test of line 72.
ExcludedAsEmpty_NoOption(e) == len(e) = 0
ExcludedAsEmpty(e) == options.exclude_empty /\ len(e) = 0

MayFail == failures < MaxFailures

\* push_back / pop_front on the queue.
push_front(q, dir) == <<dir>> \o q
push_back(q, dir) == Append(q, dir)
front(q) == Head(q)
pop_front(q) == Tail(q)

\* Reading the entry fails (line 48): next returns the error.  The ReadDir
\* either has ended or can be read again, as the platform has it.
IterEntryErr ==
    /\ Created /\ read_dir.open /\ MayFail
    /\ \E ended \in BOOLEAN :
        read_dir' = IF ended THEN [read_dir EXCEPT !.rest = <<>>] ELSE read_dir
    /\ ret' = "Err"
    /\ failures' = failures + 1
    /\ UNCHANGED <<queue, yielded, popped, pushed, finished, admitted, rejected>>
    /\ UNCHANGED <<matchVars, treeVars, scanVars>>

\* The entry is a directory (lines 52-55): it is queued and the loop goes on.
IterEntryDir ==
    /\ HasEntry /\ is_dir(entry)
    /\ queue' = push_back(queue, path_of(entry))
    /\ pushed' = Append(pushed, path_of(entry))
    /\ read_dir' = Consume
    /\ ret' = "Pending"
    /\ UNCHANGED <<yielded, popped, finished, admitted, rejected, failures>>
    /\ UNCHANGED <<matchVars, treeVars, scanVars>>

\* The entry is neither a directory nor a regular file (line 57).
IterEntryNotFile ==
    /\ HasEntry /\ ~is_dir(entry) /\ ~is_file(entry)
    /\ read_dir' = Consume
    /\ ret' = "Pending"
    /\ UNCHANGED <<queue, yielded, popped, pushed, finished, admitted, rejected,
                   failures>>
    /\ UNCHANGED <<matchVars, treeVars, scanVars>>

\* The entry is a regular file whose name the filters refuse (lines 58-65).
IterEntryFiltered ==
    /\ HasEntry /\ is_file(entry) /\ ~PassesFilters(entry)
    /\ rejected' = rejected \cup {path_of(entry)}
    /\ read_dir' = Consume
    /\ ret' = "Pending"
    /\ UNCHANGED <<queue, yielded, popped, pushed, finished, admitted, failures>>
    /\ UNCHANGED <<matchVars, treeVars, scanVars>>

\* path.metadata() fails (line 69): next returns the error.
IterMetadataErr ==
    /\ HasEntry /\ is_file(entry) /\ PassesFilters(entry) /\ MayFail
    /\ admitted' = admitted \cup {path_of(entry)}
    /\ read_dir' = Consume
    /\ ret' = "Err"
    /\ failures' = failures + 1
    /\ UNCHANGED <<queue, yielded, popped, pushed, finished, rejected>>
    /\ UNCHANGED <<matchVars, treeVars, scanVars>>

\* The file is empty and empty files are excluded (lines 72-74).
IterSkipEmpty ==
    /\ HasEntry /\ is_file(entry) /\ PassesFilters(entry)
    /\ ExcludedAsEmpty(entry)
    /\ admitted' = admitted \cup {path_of(entry)}
    /\ read_dir' = Consume
    /\ ret' = "Pending"
    /\ UNCHANGED <<queue, yielded, popped, pushed, finished, rejected, failures>>
    /\ UNCHANGED <<matchVars, treeVars, scanVars>>

\* next returns the file (line 76).
IterYield ==
    /\ HasEntry /\ is_file(entry) /\ PassesFilters(entry)
    /\ ~ExcludedAsEmpty(entry)
    /\ admitted' = admitted \cup {path_of(entry)}
    /\ yielded' = Append(yielded, path_of(entry))
    /\ read_dir' = Consume
    /\ ret' = "Ok"
    /\ UNCHANGED <<queue, popped, pushed, finished, rejected, failures>>
    /\ UNCHANGED <<matchVars, treeVars, scanVars>>

\* The listing has no more entries (line 78).
IterDirFinished ==
    /\ Created /\ read_dir.open /\ read_dir.rest = <<>>
    /\ read_dir' = Closed
    /\ finished' = finished \cup {read_dir.dir}
    /\ ret' = "Pending"
    /\ UNCHANGED <<queue, yielded, popped, pushed, admitted, rejected, failures>>
    /\ UNCHANGED <<matchVars, treeVars, scanVars>>

\* The next directory is taken from the queue and opened (lines 80-82).
IterOpenDir ==
    /\ Created /\ ~read_dir.open /\ queue # <<>>
    /\ read_dir' = Open(fs, front(queue))
    /\ queue' = pop_front(queue)
    /\ popped' = Append(popped, front(queue))
    /\ ret' = "Pending"
    /\ UNCHANGED <<yielded, pushed, finished, admitted, rejected, failures>>
    /\ UNCHANGED <<matchVars, treeVars, scanVars>>

\* fs::read_dir fails on the directory taken from the queue (line 83).
IterOpenDirErr ==
    /\ Created /\ ~read_dir.open /\ queue # <<>> /\ MayFail
    /\ queue' = pop_front(queue)
    /\ popped' = Append(popped, front(queue))
    /\ ret' = "Err"
    /\ failures' = failures + 1
    /\ UNCHANGED <<read_dir, yielded, pushed, finished, admitted, rejected>>
    /\ UNCHANGED <<matchVars, treeVars, scanVars>>

\* Nothing is open and the queue is empty (lines 86, 89).
IterReturnNone ==
    /\ Created /\ ~read_dir.open /\ queue = <<>>
    /\ ret' = "None"
    /\ UNCHANGED <<queue, read_dir, yielded, popped, pushed, finished, admitted,
                   rejected, failures>>
    /\ UNCHANGED <<matchVars, treeVars, scanVars>>

IterOkStep ==
    \/ IterEntryDir
    \/ IterEntryNotFile
    \/ IterEntryFiltered
    \/ IterSkipEmpty
    \/ IterYield
    \/ IterDirFinished
    \/ IterOpenDir
    \/ IterReturnNone

IterErrStep ==
    \/ IterEntryErr
    \/ IterMetadataErr
    \/ IterOpenDirErr

IterNext == IterNew \/ IterOkStep \/ IterErrStep

\* The walker with I/O failures.
SpecIter == IterInit /\ [][IterNext]_vars

IterOkNext == IterNew \/ IterOkStep

\* The walker on a tree that can be read throughout; the caller goes on
\* calling next until it returns None.
SpecIterOk == IterInit /\ [][IterOkNext]_vars /\ WF_vars(IterOkNext)

----------------------------------------------------------------------------
(* scan_directory and find_duplicates (dedup.rs) *)

DedupFilterLists == {<<>>, << <<"a">> >>}

\* find_duplicates is called: the locals of scan_directory before its loop.
\* only_compare_file_size is the field main sets from --size-only.
ScanInit ==
    /\ fs \in Trees(Contents)
    /\ options \in [filters : DedupFilterLists, case_sensitive : BOOLEAN,
                    exclude_empty : BOOLEAN, only_compare_file_size : BOOLEAN]
    /\ scan_queue = <<Root>>
    /\ entries = Closed
    /\ size_map = <<>>
    /\ unread = {}
    /\ status = "Running"
    /\ groups = {}
    /\ failures = 0
    /\ MatchIdle /\ IterIdle

Running == status = "Running"
ScanHasEntry == Running /\ entries.open /\ entries.rest # <<>>
scan_entry == Head(entries.rest)
ScanConsume == [entries EXCEPT !.rest = Tail(@)]

\* The filter test of line 73 on a regular file.
ScanPassesFilters(e) ==
    matches_filters(path_of(e), options.filters, options.case_sensitive)

\* size == 0 && options.exclude_empty (line 85).
ScanExcludedAsEmpty_NoOption(e) == len(e) = 0
ScanExcludedAsEmpty(e) == len(e) = 0 /\ options.exclude_empty

\* FileInfo { path, size } (lines 89-92).
FileInfo(e) == [path |-> path_of(e), size |-> len(e)]

\* size_map.entry(size).or_insert_with(Vec::new).push(file_info)
push_entry_Overwrite(map, size, file_info) ==
    [k \in DOMAIN map \cup {size} |->
        IF k = size THEN <<file_info>> ELSE map[k]]

push_entry(map, size, file_info) ==
    IF size \in DOMAIN map
    THEN [map EXCEPT ![size] = Append(@, file_info)]
    ELSE [k \in DOMAIN map \cup {size} |->
            IF k = size THEN <<file_info>> ELSE map[k]]

\* The closure of size_map.retain (line 35).
Retained_NonEmpty(files) == Len(files) > 0
Retained(files) == Len(files) > 1

\* The rest of find_duplicates once scan_directory returned Ok (lines 35-42):
\* the groups, which come in no particular order.
GroupsOf(map) == {map[k] : k \in {j \in DOMAIN map : Retained(map[j])}}

\* while let Some(current_dir) = queue.pop_front(), fs::read_dir succeeds.
ScanOpenDir ==
    /\ Running /\ ~entries.open /\ scan_queue # <<>>
    /\ entries' = Open(fs, front(scan_queue))
    /\ scan_queue' = pop_front(scan_queue)
    /\ UNCHANGED <<size_map, unread, status, groups, failures>>
    /\ UNCHANGED <<matchVars, treeVars, iterVars>>

\* fs::read_dir fails (line 57): scan_directory and find_duplicates return Err.
ScanOpenDirErr ==
    /\ Running /\ ~entries.open /\ scan_queue # <<>> /\ MayFail
    /\ scan_queue' = pop_front(scan_queue)
    /\ status' = "Err"
    /\ failures' = failures + 1
    /\ UNCHANGED <<entries, size_map, unread, groups>>
    /\ UNCHANGED <<matchVars, treeVars, iterVars>>

\* Reading an entry fails (line 63): Err is returned.
ScanEntryErr ==
    /\ Running /\ entries.open /\ MayFail
    /\ status' = "Err"
    /\ failures' = failures + 1
    /\ UNCHANGED <<scan_queue, entries, size_map, unread, groups>>
    /\ UNCHANGED <<matchVars, treeVars, iterVars>>

\* The entry is a directory (lines 68-71).
ScanEntryDir ==
    /\ ScanHasEntry /\ is_dir(scan_entry)
    /\ scan_queue' = push_back(scan_queue, path_of(scan_entry))
    /\ entries' = ScanConsume
    /\ UNCHANGED <<size_map, unread, status, groups, failures>>
    /\ UNCHANGED <<matchVars, treeVars, iterVars>>

\* The entry is no regular file, or the filters refuse its name (lines 73-76).
ScanEntrySkipped ==
    /\ ScanHasEntry /\ ~is_dir(scan_entry)
    /\ ~is_file(scan_entry) \/ ~ScanPassesFilters(scan_entry)
    /\ entries' = ScanConsume
    /\ UNCHANGED <<scan_queue, size_map, unread, status, groups, failures>>
    /\ UNCHANGED <<matchVars, treeVars, iterVars>>

\* path.metadata() fails (line 80): the file is skipped.
ScanMetadataErr ==
    /\ ScanHasEntry /\ is_file(scan_entry) /\ ScanPassesFilters(scan_entry)
    /\ MayFail
    /\ unread' = unread \cup {path_of(scan_entry)}
    /\ entries' = ScanConsume
    /\ failures' = failures + 1
    /\ UNCHANGED <<scan_queue, size_map, status, groups>>
    /\ UNCHANGED <<matchVars, treeVars, iterVars>>

\* The file is empty and empty files are excluded (lines 85-87).
ScanSkipEmpty ==
    /\ ScanHasEntry /\ is_file(scan_entry) /\ ScanPassesFilters(scan_entry)
    /\ ScanExcludedAsEmpty(scan_entry)
    /\ entries' = ScanConsume
    /\ UNCHANGED <<scan_queue, size_map, unread, status, groups, failures>>
    /\ UNCHANGED <<matchVars, treeVars, iterVars>>

\* The file is recorded under its size (lines 89-96).
ScanRecord ==
    /\ ScanHasEntry /\ is_file(scan_entry) /\ ScanPassesFilters(scan_entry)
    /\ ~ScanExcludedAsEmpty(scan_entry)
    /\ size_map' = push_entry(size_map, len(scan_entry), FileInfo(scan_entry))
    /\ entries' = ScanConsume
    /\ UNCHANGED <<scan_queue, unread, status, groups, failures>>
    /\ UNCHANGED <<matchVars, treeVars, iterVars>>

\* The for loop over the entries ends (line 97).
ScanDirFinished ==
    /\ Running /\ entries.open /\ entries.rest = <<>>
    /\ entries' = Closed
    /\ UNCHANGED <<scan_queue, size_map, unread, status, groups, failures>>
    /\ UNCHANGED <<matchVars, treeVars, iterVars>>

\* The queue is empty: scan_directory returns Ok(size_map) (line 100) and
\* find_duplicates keeps the entries with more than one file (lines 35-42).
FindDuplicatesOk ==
    /\ Running /\ ~entries.open /\ scan_queue = <<>>
    /\ groups' = GroupsOf(size_map)
    /\ status' = "Ok"
    /\ UNCHANGED <<scan_queue, entries, size_map, unread, failures>>
    /\ UNCHANGED <<matchVars, treeVars, iterVars>>

ScanStep ==
    \/ ScanOpenDir
    \/ ScanOpenDirErr
    \/ ScanEntryErr
    \/ ScanEntryDir
    \/ ScanEntrySkipped
    \/ ScanMetadataErr
    \/ ScanSkipEmpty
    \/ ScanRecord
    \/ ScanDirFinished
    \/ FindDuplicatesOk

Init == ScanInit

Next == ScanStep

\* One call of find_duplicates, with I/O failures.
Spec == Init /\ [][Next]_vars

----------------------------------------------------------------------------
(* Reference glob semantics, by structural recursion on the pattern *)

RECURSIVE GlobMatches(_, _, _)
GlobMatches(name, pattern, case_sensitive) ==
    IF pattern = <<>> THEN name = <<>>
    ELSE IF Head(pattern) = "*"
         THEN \/ GlobMatches(name, Tail(pattern), case_sensitive)
              \/ /\ name # <<>>
                 /\ GlobMatches(Tail(name), pattern, case_sensitive)
    ELSE IF name = <<>> THEN FALSE
    ELSE /\ \/ Head(pattern) = "?"
            \/ chars_eq(Head(pattern), Head(name), case_sensitive)
         /\ GlobMatches(Tail(name), Tail(pattern), case_sensitive)

OnlyStars(filter) == \A i \in 1..Len(filter) : filter[i] = "*"

\* C1: for every name and every non-empty pattern over the alphabet, and both
\* values of case_sensitive, matches_filter returns true exactly when the
\* whole name matches the pattern under reference glob semantics ('?' one
\* character, '*' zero or more, anything else itself, no escaping).  The
\* empty pattern, which matches_filter accepts before scanning, is C2's.
C1_MatchesGlob ==
    (m.pc = "done" /\ m.filter # <<>>)
        => (m.ret = GlobMatches(m.file_name, m.filter, m.case_sensitive))

\* C2: for every name, the empty name and names holding '*' or '?' included,
\* and every pattern that is empty or made only of '*', matches_filter
\* returns true, whatever case_sensitive is.
C2_OnlyStarsMatch ==
    (m.pc = "done" /\ OnlyStars(m.filter)) => m.ret = TRUE

----------------------------------------------------------------------------
(* The duplicate finder *)

Entries == {fs[i] : i \in DOMAIN fs}
RegularFiles == {e \in Entries : e.kind = "file"}
Members(g) == {g[i].path : i \in DOMAIN g}
Together(p, q) == \E g \in groups : p \in Members(g) /\ q \in Members(g)

\* The file passes the name filter and the empty-file policy.
Eligible(e) ==
    /\ matches_filters(path_of(e), options.filters, options.case_sensitive)
    /\ ~(options.exclude_empty /\ Len(e.content) = 0)

\* The scan read the file's metadata.
WasRead(e) == path_of(e) \notin unread

\* C3: two eligible files of identical size and different content are never
\* in one DuplicateGroup when find_duplicates runs in the default mode
\* (only_compare_file_size false), and are in one DuplicateGroup when it runs
\* in size-only mode (there, for the files whose metadata the scan read).
C3_SameSizeDifferentContent ==
    status = "Ok" =>
        \A e1, e2 \in RegularFiles :
            ( /\ Eligible(e1) /\ Eligible(e2)
              /\ Len(e1.content) = Len(e2.content)
              /\ e1.content # e2.content )
            => IF options.only_compare_file_size
               THEN (WasRead(e1) /\ WasRead(e2))
                        => Together(path_of(e1), path_of(e2))
               ELSE ~Together(path_of(e1), path_of(e2))

NoFileInTwoGroups ==
    \A g1, g2 \in groups : g1 # g2 => Members(g1) \cap Members(g2) = {}

\* C4 as stated: after a successful run any two eligible files of identical
\* content are in the same DuplicateGroup, and no file is in two groups.
C4_SameContentTogether_AsStated ==
    status = "Ok" =>
        /\ \A e1, e2 \in RegularFiles :
            ( /\ e1 # e2 /\ Eligible(e1) /\ Eligible(e2)
              /\ e1.content = e2.content )
            => Together(path_of(e1), path_of(e2))
        /\ NoFileInTwoGroups

\* C4: after a successful run any two eligible files of identical content
\* whose metadata the scan read are in the same DuplicateGroup, and no file
\* is in two groups.
C4_SameContentTogether ==
    status = "Ok" =>
        /\ \A e1, e2 \in RegularFiles :
            ( /\ e1 # e2 /\ Eligible(e1) /\ Eligible(e2)
              /\ WasRead(e1) /\ WasRead(e2)
              /\ e1.content = e2.content )
            => Together(path_of(e1), path_of(e2))
        /\ NoFileInTwoGroups

\* A successful run has put two distinct files of the same non-empty content
\* into one group, in a run where a third file could not be read.
C4_Witness ==
    /\ status = "Ok"
    /\ unread # {}
    /\ \E e1, e2 \in RegularFiles :
        /\ e1 # e2 /\ e1.content = e2.content /\ e1.content # <<>>
        /\ Together(path_of(e1), path_of(e2))

\* C5: every DuplicateGroup of the result has at least 2 members, and no
\* entry of size_map with fewer than 2 files becomes a group.
C5_GroupsHaveTwoMembers ==
    /\ \A g \in groups : Len(g) >= 2
    /\ \A k \in DOMAIN size_map : Len(size_map[k]) < 2 => size_map[k] \notin groups

\* A successful run that reports a group and dropped a size with one file.
C5_Witness ==
    /\ status = "Ok"
    /\ groups # {}
    /\ \E k \in DOMAIN size_map : Len(size_map[k]) = 1

\* The zero-length regular files whose name passes the filters.
ZeroLength ==
    {e \in RegularFiles :
        /\ Len(e.content) = 0
        /\ matches_filters(path_of(e), options.filters, options.case_sensitive)}
Paths(S) == {path_of(e) : e \in S}
HoldsZeroLength(g) ==
    \E i \in DOMAIN g : g[i].size = 0 \/ g[i].path \in Paths(ZeroLength)

NoEmptyWhenExcluded ==
    options.exclude_empty => \A g \in groups : ~HoldsZeroLength(g)

\* C6 as stated: with exclude_empty no group holds a zero-length file;
\* without it, two or more zero-length files that pass the name filter are
\* all reported together, as exactly one group.
C6_ZeroLengthFiles_AsStated ==
    /\ NoEmptyWhenExcluded
    /\ (status = "Ok" /\ ~options.exclude_empty /\ Cardinality(ZeroLength) >= 2)
        => /\ \E g \in groups : Members(g) = Paths(ZeroLength)
           /\ Cardinality({g \in groups : HoldsZeroLength(g)}) = 1

ZeroLengthRead == {e \in ZeroLength : WasRead(e)}

\* C6: with exclude_empty no group holds a zero-length file; without it,
\* when two or more zero-length files pass the name filter and have their
\* metadata read, a successful run reports all of those together, as exactly
\* one group.
C6_ZeroLengthFiles ==
    /\ NoEmptyWhenExcluded
    /\ (status = "Ok" /\ ~options.exclude_empty
            /\ Cardinality(ZeroLengthRead) >= 2)
        => /\ \E g \in groups : Members(g) = Paths(ZeroLengthRead)
           /\ Cardinality({g \in groups : HoldsZeroLength(g)}) = 1

\* A successful run without exclude_empty that reports the group of the two
\* empty files it read and recorded a non-empty file beside them.
C6_Witness ==
    /\ status = "Ok" /\ ~options.exclude_empty
    /\ Cardinality(ZeroLengthRead) = 2
    /\ \E g \in groups : Members(g) = Paths(ZeroLengthRead)
    /\ \E k \in DOMAIN size_map : k # 0

----------------------------------------------------------------------------
(* The streaming walker *)

YieldedSet == {yielded[i] : i \in DOMAIN yielded}

\* The regular files of the tree that pass matches_filters and the
\* empty-file policy.
Expected == {path_of(e) : e \in {f \in RegularFiles : Eligible(f)}}

WalkSound ==
    /\ YieldedSet \subseteq Expected
    /\ Cardinality(YieldedSet) = Len(yielded)
    /\ (Created /\ ret = "None") => YieldedSet = Expected

\* C7: on a tree that is read without failure, next yields only regular
\* files that pass matches_filters and the empty-file policy, never the same
\* path twice, has yielded every one of them when it returns None, and does
\* return None after finitely many steps.
C7_WalkYieldsEachFileOnce == []WalkSound /\ <>(Created /\ ret = "None")

\* The walk has ended after yielding two files and refusing the third.
C7_Witness ==
    /\ Created /\ ret = "None"
    /\ Len(yielded) = 2
    /\ rejected # {}

\* C8: once next has returned an error, no later call yields a FileRecord.
C8_ErrorEndsWalk == [][failures > 0 => yielded' = yielded]_vars

\* The three conditions of C9 for a path.
AdmitCondition(path) ==
    \/ options.filters = <<>>
    \/ \E i \in 1..Len(options.filters) : options.filters[i] = <<"*">>
    \/ \E i \in 1..Len(options.filters) :
        matches_filter(file_name(path), options.filters[i], options.case_sensitive)

\* C9: the walker lets a regular file through matches_filters exactly when
\* filters is empty, or holds the literal "*", or one of its elements
\* satisfies matches_filter on the file's base name.
C9_AdmittedIffCondition ==
    /\ \A p \in admitted : AdmitCondition(p)
    /\ \A p \in rejected : ~AdmitCondition(p)

\* Under a two-element filter list without "*" the walk has ended after
\* letting one file through and refusing another.
C9_Witness ==
    /\ Len(options.filters) = 2
    /\ admitted # {} /\ rejected # {}
    /\ Created /\ ret = "None"

Parent(path) == SubSeq(path, 1, Len(path) - 1)
IsPrefix(s, t) == Len(s) <= Len(t) /\ \A i \in 1..Len(s) : s[i] = t[i]

\* C10: directories leave the queue in the order they entered it, each at
\* most once; a directory is taken from the queue only after the listing of
\* its parent has ended; and the files are yielded in non-decreasing depth.
C10_BreadthFirst ==
    /\ IsPrefix(popped, pushed)
    /\ \A i, j \in DOMAIN popped : i # j => popped[i] # popped[j]
    /\ \A i \in DOMAIN popped :
        popped[i] # Root => Parent(popped[i]) \in finished
    /\ read_dir.open => read_dir.dir \notin finished
    /\ \A i, j \in DOMAIN yielded : i < j => Len(yielded[i]) <= Len(yielded[j])

\* The walk has listed all four directories and yielded a file of depth 2
\* before one of depth 3.
C10_Witness ==
    /\ Created /\ ret = "None"
    /\ Len(popped) = 4
    /\ \E i, j \in DOMAIN yielded : Len(yielded[i]) < Len(yielded[j])

----------------------------------------------------------------------------
(* The scan loop of matches_filter ends *)

\* What a backtrack step does to the cursors: the filter cursor is back on
\* the recorded '*', the checkpoint's name cursor is one character further,
\* and the name cursor is where the checkpoint's name cursor now is.
BacktrackResumes ==
    StepBacktrack =>
        /\ m'.filter_iter = m.star_filter_iter
        /\ m.filter[m'.filter_iter] = "*"
        /\ m'.star_file_name_iter = m.star_file_name_iter + 1
        /\ m'.file_name_iter = m'.star_file_name_iter

CheckpointNeverBack == m'.star_file_name_iter >= m.star_file_name_iter

NameNotBehindCheckpoint == m.file_name_iter >= m.star_file_name_iter

\* A bound on the passes through the loop body, from the two lengths alone.
IterationBound(name_len, filter_len) == (name_len + 1) * (filter_len + 1)

IterationsBounded ==
    iterations <= IterationBound(Len(m.file_name), Len(m.filter))

Returned == m.pc = "done"

\* C11: the scan loop of matches_filter ends for every name and filter.  A
\* backtrack step puts the filter cursor back on the recorded '*' and moves
\* the checkpoint's name cursor forward by exactly one character; no step
\* moves the checkpoint's name cursor backwards; the name cursor is never
\* behind the checkpoint's; the passes through the loop body number at most
\* (Len(name) + 1) * (Len(filter) + 1); and matches_filter returns.
C11_ScanLoopTerminates ==
    /\ [][BacktrackResumes /\ CheckpointNeverBack]_vars
    /\ [](NameNotBehindCheckpoint /\ IterationsBounded)
    /\ <>Returned

\* A call that backtracked more than once, recorded a '*' again after a
\* backtrack with the name cursor ahead of the old checkpoint, and returned.
C11_Witness ==
    /\ Returned
    /\ iterations > Len(m.file_name) + Len(m.filter)
    /\ m.star_filter_iter > 1
    /\ m.star_file_name_iter > 2
    /\ m.ret

====
